---- MODULE Spec2Model ----
(***************************************************************************)
(* Model of the ultimate_logger crate: LogLevel (src/src/log_level.rs),    *)
(* LogFile (src/src/log_file.rs) and Logger (src/src/lib.rs).              *)
(*                                                                         *)
(* A process owns at most one Logger at a time.  The file system maps a    *)
(* path to the chunks appended to the file at that path, the console is    *)
(* the sequence of lines printed to standard output, and the clock is the  *)
(* local time in milliseconds, which advances by one between two readings. *)
(* A line is a sequence of tokens, one per literal piece and per argument  *)
(* of the format string; a token carries its text and the style            *)
(* colored::ColoredString gives it ("none" for a plain String).  A message *)
(* holds no newline.  A panic ends the process: nothing runs after it.     *)
(***************************************************************************)
EXTENDS Naturals, Sequences, FiniteSets, TLC

VARIABLES scope, fs, console, clock, logger, pc, calls, op, last

vars == <<scope, fs, console, clock, logger, pc, calls, op, last>>

----------------------------------------------------------------------------
(* Bounds and input sets *)

\* Number of API calls (constructors, log and its shortcuts) in a run that
\* draws its arguments from every level, name, message and path.
MaxCalls == 2

\* Number of API calls in a run that reopens one file with few arguments.
MaxReopenCalls == 4

\* Number of API calls in a run that also reconfigures its logger.
MaxSetterCalls == 3

Names    == {"svc", "test"}
Messages == {"disk full", "info msg"}
Paths    == {"log.txt", "test.log"}

\* A chunk left in a file by an earlier run of some program.
OldChunk == <<[text |-> "previous content", style |-> "none"],
              [text |-> "\n", style |-> "none"]>>

----------------------------------------------------------------------------
(* log_level.rs *)

LogLevel == {"Info", "Debug", "Trace", "Warning", "Error", "Critical"}

\* `level as u8`: the discriminant, the variant's position in the enum.
LevelAsU8_SeverityOrder(level) ==
    CASE level = "Trace"    -> 0
      [] level = "Debug"    -> 1
      [] level = "Info"     -> 2
      [] level = "Warning"  -> 3
      [] level = "Error"    -> 4
      [] level = "Critical" -> 5

LevelAsU8(level) ==
    CASE level = "Info"     -> 0
      [] level = "Debug"    -> 1
      [] level = "Trace"    -> 2
      [] level = "Warning"  -> 3
      [] level = "Error"    -> 4
      [] level = "Critical" -> 5

to_string_Capitalized(level) == level

to_string(level) ==
    CASE level = "Info"     -> "info"
      [] level = "Debug"    -> "debug"
      [] level = "Trace"    -> "trace"
      [] level = "Warning"  -> "warning"
      [] level = "Error"    -> "error"
      [] level = "Critical" -> "critical"

\* The style of the ColoredString color_string returns for `str`.
color_string(level, str) ==
    CASE level = "Trace"    -> [text |-> str, style |-> "underline"]
      [] level = "Debug"    -> [text |-> str, style |-> "dimmed"]
      [] level = "Info"     -> [text |-> str, style |-> "clear"]
      [] level = "Warning"  -> [text |-> str, style |-> "yellow"]
      [] level = "Error"    -> [text |-> str, style |-> "red"]
      [] level = "Critical" -> [text |-> str, style |-> "red bold"]

\* A String or &str argument of a format string: no styling.
Plain(str) == [text |-> str, style |-> "none"]

----------------------------------------------------------------------------
(* log_file.rs *)

\* A file that does not exist.
Absent == [exists |-> FALSE, content |-> <<>>]

\* OpenOptions write+append+create: the file is created when absent and is
\* never truncated.  `ok` is the outcome of the open system call.
LogFile_new_Truncating(files, path, ok) ==
    IF ok
    THEN [panicked |-> FALSE,
          files    |-> [files EXCEPT ![path] = [exists |-> TRUE, content |-> <<>>]],
          log_file |-> <<[path |-> path]>>]
    ELSE [panicked |-> TRUE, files |-> files, log_file |-> <<>>]

LogFile_new(files, path, ok) ==
    IF ok
    THEN [panicked |-> FALSE,
          files    |-> [files EXCEPT ![path].exists = TRUE],
          log_file |-> <<[path |-> path]>>]
    ELSE [panicked |-> TRUE, files |-> files, log_file |-> <<>>]

\* write_all on a handle opened for append: `ok` is its outcome; when it
\* fails the first `cut` tokens of to_write may already be in the file.
LogFile_write_Swallowing(files, path, to_write, ok, cut) ==
    IF ok
    THEN [panicked |-> FALSE,
          files    |-> [files EXCEPT ![path].content = Append(@, to_write)]]
    ELSE [panicked |-> FALSE,
          files    |-> IF cut = 0 THEN files
                       ELSE [files EXCEPT ![path].content =
                                Append(@, SubSeq(to_write, 1, cut))]]

LogFile_write(files, path, to_write, ok, cut) ==
    IF ok
    THEN [panicked |-> FALSE,
          files    |-> [files EXCEPT ![path].content = Append(@, to_write)]]
    ELSE [panicked |-> TRUE,
          files    |-> IF cut = 0 THEN files
                       ELSE [files EXCEPT ![path].content =
                                Append(@, SubSeq(to_write, 1, cut))]]

----------------------------------------------------------------------------
(* lib.rs: constructors *)

\* Option<LogFile>
None == <<>>

Logger_new_FileEnabled(name, min_level) ==
    [name             |-> name,
     min_level        |-> min_level,
     log_file         |-> None,
     write_to_console |-> TRUE,
     write_to_file    |-> TRUE]

Logger_new(name, min_level) ==
    [name             |-> name,
     min_level        |-> min_level,
     log_file         |-> None,
     write_to_console |-> TRUE,
     write_to_file    |-> FALSE]

\* LogFile::new runs first: when it panics no Logger is built.
Logger_new_to_file_NoSink(files, name, min_level, filepath, write_to_console_too, ok) ==
    LET opened == LogFile_new(files, filepath, ok) IN
    [panicked |-> opened.panicked,
     files    |-> opened.files,
     logger   |-> IF opened.panicked THEN <<>>
                  ELSE <<[name             |-> name,
                          min_level        |-> min_level,
                          log_file         |-> None,
                          write_to_console |-> write_to_console_too,
                          write_to_file    |-> TRUE]>>]

Logger_new_to_file(files, name, min_level, filepath, write_to_console_too, ok) ==
    LET opened == LogFile_new(files, filepath, ok) IN
    [panicked |-> opened.panicked,
     files    |-> opened.files,
     logger   |-> IF opened.panicked THEN <<>>
                  ELSE <<[name             |-> name,
                          min_level        |-> min_level,
                          log_file         |-> opened.log_file,
                          write_to_console |-> write_to_console_too,
                          write_to_file    |-> TRUE]>>]

Logger_new_default(name) == Logger_new(name, "Info")

----------------------------------------------------------------------------
(* lib.rs: formatting *)

Pad3(n) ==
    IF n < 10 THEN "00" \o ToString(n)
    ELSE IF n < 100 THEN "0" \o ToString(n)
    ELSE ToString(n)

\* Local::now().format("%F %T%.3f"), `now` being the milliseconds read.
get_date_time(now) == "2020-12-31 23:59:59." \o Pad3(now)

get_colored_level_name(level) == color_string(level, to_string(level))

get_colored_message(level, message) == color_string(level, message)

\* The String log_to_file hands to LogFile::write.
FileLine(now, level, message, name) ==
    << Plain("["), Plain(get_date_time(now)), Plain("] ["), Plain(name),
       Plain("] ["), Plain(to_string(level)), Plain("] "), Plain(message),
       Plain("\n") >>

\* What println! writes in log_to_console, its newline included.
ConsoleLine(now, level, message, name) ==
    << Plain("["), Plain(get_date_time(now)), Plain("] ["), Plain(name),
       Plain("] ["), get_colored_level_name(level), Plain("] "),
       get_colored_message(level, message), Plain("\n") >>

\* How many tokens of a line a failed write_all may leave in the file.
Cuts == {0, 5}

----------------------------------------------------------------------------
(* lib.rs: log and its shortcuts *)

\* What is recorded of a call: its arguments, the logger's min_level when it
\* was made, whether it returned and what, the outcome of its file
\* operation, how many times it called LogFile::write and println!, and the
\* destinations it went to, in the order it went to them.
NoCall ==
    [name |-> "", level |-> "Info", message |-> "", path |-> "",
     console_too |-> FALSE, flag |-> FALSE, min_level |-> "Info",
     returned |-> FALSE, result |-> FALSE, io |-> "none", writes |-> 0,
     prints |-> 0, order |-> <<>>]

\* Line 280.
Gate_Strict(level, min_level) == LevelAsU8(level) > LevelAsU8(min_level)

Gate_Ignored(level, min_level) == TRUE

Gate(level, min_level) == LevelAsU8(level) >= LevelAsU8(min_level)

\* Lines 281-282.
FileEnabled_Never(self) == FALSE

FileEnabled(self) == self.write_to_file /\ self.log_file # None

\* Line 287.
ConsoleEnabled_Always(self) == TRUE

ConsoleEnabled(self) == self.write_to_console

\* The effect of log on a logger `self`, given what the environment
\* answers: the outcome (ok, cut) of the write.  log_to_file reads the clock
\* first, log_to_console reads it after the write.
log_effect_PrintBeforeGate(self, level, message, ok, cut) ==
    LET passes  == Gate(level, self.min_level)
        toFile  == passes /\ FileEnabled(self)
        nowFile == clock
        nowConsole == IF toFile THEN clock + 1 ELSE clock
        written == IF toFile
                   THEN LogFile_write(fs, self.log_file[1].path,
                                      FileLine(nowFile, level, message, self.name),
                                      ok, cut)
                   ELSE [panicked |-> FALSE, files |-> fs]
        toConsole == ~written.panicked /\ ConsoleEnabled(self)
    IN [panicked |-> written.panicked,
        files    |-> written.files,
        console  |-> IF toConsole
                     THEN Append(console,
                                 ConsoleLine(nowConsole, level, message, self.name))
                     ELSE console,
        returned |-> ~written.panicked,
        result   |-> ~written.panicked /\ passes,
        io       |-> IF ~toFile THEN "none"
                     ELSE IF ok THEN "ok" ELSE "write_failed",
        writes   |-> IF toFile THEN 1 ELSE 0,
        prints   |-> IF toConsole THEN 1 ELSE 0,
        order    |-> (IF toFile THEN <<"file">> ELSE <<>>)
                     \o (IF toConsole THEN <<"console">> ELSE <<>>),
        clock    |-> IF toConsole THEN nowConsole + 1
                     ELSE IF toFile THEN nowFile + 1 ELSE clock]

log_effect_ConsoleFirst(self, level, message, ok, cut) ==
    LET passes  == Gate(level, self.min_level)
        toFile  == passes /\ FileEnabled(self)
        toConsole == passes /\ ConsoleEnabled(self)
        nowConsole == clock
        nowFile == IF toConsole THEN clock + 1 ELSE clock
        written == IF toFile
                   THEN LogFile_write(fs, self.log_file[1].path,
                                      FileLine(nowFile, level, message, self.name),
                                      ok, cut)
                   ELSE [panicked |-> FALSE, files |-> fs]
    IN [panicked |-> written.panicked,
        files    |-> written.files,
        console  |-> IF toConsole
                     THEN Append(console,
                                 ConsoleLine(nowConsole, level, message, self.name))
                     ELSE console,
        returned |-> ~written.panicked,
        result   |-> ~written.panicked /\ passes,
        io       |-> IF ~toFile THEN "none"
                     ELSE IF ok THEN "ok" ELSE "write_failed",
        writes   |-> IF toFile THEN 1 ELSE 0,
        prints   |-> IF toConsole THEN 1 ELSE 0,
        order    |-> (IF toConsole THEN <<"console">> ELSE <<>>)
                     \o (IF toFile THEN <<"file">> ELSE <<>>),
        clock    |-> IF toFile THEN nowFile + 1
                     ELSE IF toConsole THEN nowConsole + 1 ELSE clock]

log_effect(self, level, message, ok, cut) ==
    LET passes  == Gate(level, self.min_level)
        toFile  == passes /\ FileEnabled(self)
        nowFile == clock
        nowConsole == IF toFile THEN clock + 1 ELSE clock
        written == IF toFile
                   THEN LogFile_write(fs, self.log_file[1].path,
                                      FileLine(nowFile, level, message, self.name),
                                      ok, cut)
                   ELSE [panicked |-> FALSE, files |-> fs]
        toConsole == passes /\ ~written.panicked /\ ConsoleEnabled(self)
    IN [panicked |-> written.panicked,
        files    |-> written.files,
        console  |-> IF toConsole
                     THEN Append(console,
                                 ConsoleLine(nowConsole, level, message, self.name))
                     ELSE console,
        returned |-> ~written.panicked,
        result   |-> ~written.panicked /\ passes,
        io       |-> IF ~toFile THEN "none"
                     ELSE IF ok THEN "ok" ELSE "write_failed",
        writes   |-> IF toFile THEN 1 ELSE 0,
        prints   |-> IF toConsole THEN 1 ELSE 0,
        order    |-> (IF toFile THEN <<"file">> ELSE <<>>)
                     \o (IF toConsole THEN <<"console">> ELSE <<>>),
        clock    |-> IF toConsole THEN nowConsole + 1
                     ELSE IF toFile THEN nowFile + 1 ELSE clock]

\* Logger::log(&mut self, level, message).  A panic unwinds the process:
\* the logger is dropped and nothing runs afterwards.
log(level, message) ==
    \E ok \in BOOLEAN, cut \in Cuts :
        LET self == logger[1]
            e    == log_effect(self, level, message, ok, cut)
        IN /\ fs' = e.files
           /\ clock' = e.clock
           /\ console' = e.console
           /\ logger' = IF e.panicked THEN <<>> ELSE logger
           /\ pc' = IF e.panicked THEN "panicked" ELSE "running"
           /\ last' = [NoCall EXCEPT !.name = self.name, !.level = level,
                          !.message = message, !.min_level = self.min_level,
                          !.returned = e.returned, !.result = e.result,
                          !.io = e.io, !.writes = e.writes, !.prints = e.prints,
                          !.order = e.order]

info(message) == log("Info", message)

debug(message) == log("Debug", message)

trace_AsDebug(message) == log("Debug", message)

trace(message) == log("Trace", message)

warning(message) == log("Warning", message)

error(message) == log("Error", message)

critical_AsError(message) == log("Error", message)

critical(message) == log("Critical", message)

----------------------------------------------------------------------------
(* The program: a caller that builds, uses and drops loggers *)

\* What a caller draws its arguments from, and how many calls it makes.
AllArguments ==
    [names |-> Names, levels |-> LogLevel, messages |-> Messages,
     paths |-> Paths, calls |-> MaxCalls]

ReopenArguments ==
    [names |-> Names, levels |-> {"Info", "Warning"}, messages |-> {"info msg"},
     paths |-> {"log.txt"}, calls |-> MaxReopenCalls]

Init ==
    /\ scope \in {AllArguments, ReopenArguments}
    /\ fs \in [Paths -> {Absent, [exists |-> TRUE, content |-> <<OldChunk>>]}]
    /\ console = <<>>
    /\ clock = 0
    /\ logger = <<>>
    /\ pc = "running"
    /\ calls = 0
    /\ op = "start"
    /\ last = NoCall

CanConstruct == pc = "running" /\ logger = <<>> /\ calls < scope.calls

CanLog == pc = "running" /\ logger # <<>> /\ calls < scope.calls

CallNew ==
    /\ CanConstruct
    /\ \E name \in scope.names, min_level \in scope.levels :
          /\ logger' = <<Logger_new(name, min_level)>>
          /\ last' = [NoCall EXCEPT !.name = name, !.level = min_level,
                         !.min_level = min_level, !.returned = TRUE]
    /\ op' = "new"
    /\ calls' = calls + 1
    /\ UNCHANGED <<scope, fs, console, clock, pc>>

CallNewDefault ==
    /\ CanConstruct
    /\ \E name \in scope.names :
          /\ logger' = <<Logger_new_default(name)>>
          /\ last' = [NoCall EXCEPT !.name = name, !.returned = TRUE]
    /\ op' = "new_default"
    /\ calls' = calls + 1
    /\ UNCHANGED <<scope, fs, console, clock, pc>>

CallNewToFile ==
    /\ CanConstruct
    /\ \E name \in scope.names, min_level \in scope.levels, filepath \in scope.paths,
          write_to_console_too \in BOOLEAN, ok \in BOOLEAN :
          LET made == Logger_new_to_file(fs, name, min_level, filepath,
                                         write_to_console_too, ok)
          IN /\ fs' = made.files
             /\ logger' = made.logger
             /\ pc' = IF made.panicked THEN "panicked" ELSE "running"
             /\ last' = [NoCall EXCEPT !.name = name, !.level = min_level,
                            !.min_level = min_level, !.path = filepath,
                            !.console_too = write_to_console_too,
                            !.returned = ~made.panicked,
                            !.io = IF ok THEN "ok" ELSE "open_failed"]
    /\ op' = "new_to_file"
    /\ calls' = calls + 1
    /\ UNCHANGED <<scope, console, clock>>

CallLog ==
    /\ CanLog
    /\ \E level \in scope.levels, message \in scope.messages : log(level, message)
    /\ op' = "log"
    /\ calls' = calls + 1
    /\ UNCHANGED scope

CallInfo ==
    /\ CanLog
    /\ "Info" \in scope.levels
    /\ \E message \in scope.messages : info(message)
    /\ op' = "info"
    /\ calls' = calls + 1
    /\ UNCHANGED scope

CallDebug ==
    /\ CanLog
    /\ "Debug" \in scope.levels
    /\ \E message \in scope.messages : debug(message)
    /\ op' = "debug"
    /\ calls' = calls + 1
    /\ UNCHANGED scope

CallTrace ==
    /\ CanLog
    /\ "Trace" \in scope.levels
    /\ \E message \in scope.messages : trace(message)
    /\ op' = "trace"
    /\ calls' = calls + 1
    /\ UNCHANGED scope

CallWarning ==
    /\ CanLog
    /\ "Warning" \in scope.levels
    /\ \E message \in scope.messages : warning(message)
    /\ op' = "warning"
    /\ calls' = calls + 1
    /\ UNCHANGED scope

CallError ==
    /\ CanLog
    /\ "Error" \in scope.levels
    /\ \E message \in scope.messages : error(message)
    /\ op' = "error"
    /\ calls' = calls + 1
    /\ UNCHANGED scope

CallCritical ==
    /\ CanLog
    /\ "Critical" \in scope.levels
    /\ \E message \in scope.messages : critical(message)
    /\ op' = "critical"
    /\ calls' = calls + 1
    /\ UNCHANGED scope

\* The logger goes out of scope: its LogFile, when it has one, is closed.
Drop ==
    /\ pc = "running"
    /\ logger # <<>>
    /\ logger' = <<>>
    /\ op' = "drop"
    /\ last' = NoCall
    /\ UNCHANGED <<scope, fs, console, clock, pc, calls>>

Next ==
    \/ CallNew
    \/ CallNewDefault
    \/ CallNewToFile
    \/ CallLog
    \/ CallInfo
    \/ CallDebug
    \/ CallTrace
    \/ CallWarning
    \/ CallError
    \/ CallCritical
    \/ Drop

Spec == Init /\ [][Next]_vars

TypeOK ==
    /\ pc \in {"running", "panicked"}
    /\ calls \in 0..scope.calls
    /\ Len(logger) <= 1

----------------------------------------------------------------------------
(* The setters of the specification (section 4.1, section 6).  lib.rs       *)
(* defines none; main.rs calls set_min_level, set_write_to_console and      *)
(* set_filepath.  Each one changes the one field it names; set_filepath     *)
(* opens a new LogFile, as new_to_file does, and puts it in the place of    *)
(* the one the logger had.                                                  *)

set_min_level(self, min_level) == [self EXCEPT !.min_level = min_level]

set_write_to_console(self, write_to_console) ==
    [self EXCEPT !.write_to_console = write_to_console]

set_write_to_file(self, write_to_file) ==
    [self EXCEPT !.write_to_file = write_to_file]

set_filepath(files, self, filepath, ok) ==
    LET opened == LogFile_new(files, filepath, ok) IN
    [panicked |-> opened.panicked,
     files    |-> opened.files,
     logger   |-> IF opened.panicked THEN <<>>
                  ELSE <<[self EXCEPT !.log_file = opened.log_file]>>]

CallSetMinLevel ==
    /\ CanLog
    /\ \E min_level \in scope.levels :
          /\ logger' = <<set_min_level(logger[1], min_level)>>
          /\ last' = [NoCall EXCEPT !.level = min_level, !.returned = TRUE]
    /\ op' = "set_min_level"
    /\ calls' = calls + 1
    /\ UNCHANGED <<scope, fs, console, clock, pc>>

CallSetWriteToConsole ==
    /\ CanLog
    /\ \E write_to_console \in BOOLEAN :
          /\ logger' = <<set_write_to_console(logger[1], write_to_console)>>
          /\ last' = [NoCall EXCEPT !.flag = write_to_console, !.returned = TRUE]
    /\ op' = "set_write_to_console"
    /\ calls' = calls + 1
    /\ UNCHANGED <<scope, fs, console, clock, pc>>

CallSetWriteToFile ==
    /\ CanLog
    /\ \E write_to_file \in BOOLEAN :
          /\ logger' = <<set_write_to_file(logger[1], write_to_file)>>
          /\ last' = [NoCall EXCEPT !.flag = write_to_file, !.returned = TRUE]
    /\ op' = "set_write_to_file"
    /\ calls' = calls + 1
    /\ UNCHANGED <<scope, fs, console, clock, pc>>

CallSetFilepath ==
    /\ CanLog
    /\ \E filepath \in scope.paths, ok \in BOOLEAN :
          LET made == set_filepath(fs, logger[1], filepath, ok)
          IN /\ fs' = made.files
             /\ logger' = made.logger
             /\ pc' = IF made.panicked THEN "panicked" ELSE "running"
             /\ last' = [NoCall EXCEPT !.path = filepath,
                            !.returned = ~made.panicked,
                            !.io = IF ok THEN "ok" ELSE "open_failed"]
    /\ op' = "set_filepath"
    /\ calls' = calls + 1
    /\ UNCHANGED <<scope, console, clock>>

SetterArguments ==
    [names |-> {"svc"}, levels |-> LogLevel, messages |-> {"disk full"},
     paths |-> Paths, calls |-> MaxSetterCalls]

InitSetters ==
    /\ scope = SetterArguments
    /\ fs \in [Paths -> {Absent, [exists |-> TRUE, content |-> <<OldChunk>>]}]
    /\ console = <<>>
    /\ clock = 0
    /\ logger = <<>>
    /\ pc = "running"
    /\ calls = 0
    /\ op = "start"
    /\ last = NoCall

NextSetters ==
    \/ Next
    \/ CallSetMinLevel
    \/ CallSetWriteToConsole
    \/ CallSetWriteToFile
    \/ CallSetFilepath

SpecSetters == InitSetters /\ [][NextSetters]_vars

----------------------------------------------------------------------------
(* Vocabulary of the properties *)

\* The variants of LogLevel in the order the enum declares them, which is
\* the order #[derive(PartialOrd, Ord)] compares them in.
EnumOrder == <<"Info", "Debug", "Trace", "Warning", "Error", "Critical">>

Rank(level) == CHOOSE i \in 1..Len(EnumOrder) : EnumOrder[i] = level

\* The order of severity: Trace lowest, Critical highest.
SeverityOrder == <<"Trace", "Debug", "Info", "Warning", "Error", "Critical">>

SeverityRank(level) == CHOOSE i \in 1..Len(SeverityOrder) : SeverityOrder[i] = level

LogOps == {"log", "info", "debug", "trace", "warning", "error", "critical"}

\* The level a shortcut stands for.
ShortcutLevel(shortcut) ==
    CASE shortcut = "info"     -> "Info"
      [] shortcut = "debug"    -> "Debug"
      [] shortcut = "trace"    -> "Trace"
      [] shortcut = "warning"  -> "Warning"
      [] shortcut = "error"    -> "Error"
      [] shortcut = "critical" -> "Critical"

\* The state right after a call of log or of a shortcut that returned.
LogReturned == op \in LogOps /\ last.returned /\ logger # <<>>

\* A step that is a call of log or of a shortcut that returned.
LogReturns == calls' # calls /\ op' \in LogOps /\ last'.returned /\ logger # <<>>

IsPrefix(s, t) == Len(s) <= Len(t) /\ SubSeq(t, 1, Len(s)) = s

\* A chunk that is one line: it ends with the only newline it holds.
IsOneLine(chunk) ==
    /\ Len(chunk) > 0
    /\ chunk[Len(chunk)].text = "\n"
    /\ \A i \in 1..(Len(chunk) - 1) : chunk[i].text # "\n"

----------------------------------------------------------------------------
(* C1 *)

\* C1: whatever logger a constructor made and whatever the levels, a call of
\* log that returns returns true exactly when the rank of its level, the
\* level's position in the LogLevel enum, is at least the rank of the
\* logger's min_level; with equal levels it returns true.
C1_LogReturnsTrueIffRankAtLeastMin ==
    LogReturned =>
        (last.result <=> Rank(last.level) >= Rank(logger[1].min_level))

C1_Witness_EqualLevelsLogged ==
    /\ LogReturned
    /\ op = "log"
    /\ last.level = "Trace"
    /\ logger[1].min_level = "Trace"
    /\ last.result

----------------------------------------------------------------------------
(* C2 *)

\* C2 as stated: the gate ranks the levels Trace < Debug < Info < Warning <
\* Error < Critical, so a call at a level of lower severity than the
\* logger's min_level returns false.
C2_Original_GateRanksBySeverity ==
    LogReturned /\ SeverityRank(last.level) < SeverityRank(logger[1].min_level)
        => ~last.result

\* C2 amended: the gate ranks the levels Info < Debug < Trace < Warning <
\* Error < Critical; for all L1 < L2 in that order a logger with min_level
\* L2 returns false for a call at L1, and a logger with min_level Info
\* accepts Trace and Debug calls.
C2_GateRanksByEnumOrder ==
    /\ \A i \in 1..(Len(EnumOrder) - 1) :
          LevelAsU8(EnumOrder[i]) < LevelAsU8(EnumOrder[i + 1])
    /\ LogReturned =>
          /\ (\E i, j \in 1..Len(EnumOrder) :
                 /\ i < j
                 /\ last.level = EnumOrder[i]
                 /\ logger[1].min_level = EnumOrder[j]) => ~last.result
          /\ (logger[1].min_level = "Info" /\ last.level \in {"Trace", "Debug"})
                 => last.result

C2_Witness_InfoRejectedByTrace ==
    /\ LogReturned
    /\ last.level = "Info"
    /\ logger[1].min_level = "Trace"
    /\ ~last.result

----------------------------------------------------------------------------
(* C3 *)

\* C3: the levels are ordered Info < Debug < Trace < Warning < Error <
\* Critical and log gates on that order: a logger with min_level Info, one
\* made by new_default included, logs calls at every level; a logger with
\* min_level Debug logs Debug and Trace calls and not Info calls; critical
\* returns true whatever the min_level.
C3_DocumentedOrderGatesLog ==
    /\ LevelAsU8("Info") < LevelAsU8("Debug")
    /\ LevelAsU8("Debug") < LevelAsU8("Trace")
    /\ LevelAsU8("Trace") < LevelAsU8("Warning")
    /\ LevelAsU8("Warning") < LevelAsU8("Error")
    /\ LevelAsU8("Error") < LevelAsU8("Critical")
    /\ LogReturned =>
          /\ logger[1].min_level = "Info" => last.result
          /\ (logger[1].min_level = "Debug" /\ last.level \in {"Debug", "Trace"})
                => last.result
          /\ (logger[1].min_level = "Debug" /\ last.level = "Info")
                => ~last.result
          /\ op = "critical" => last.result

C3_Witness_CriticalLoggedAtCritical ==
    /\ LogReturned
    /\ op = "critical"
    /\ logger[1].min_level = "Critical"
    /\ last.result

----------------------------------------------------------------------------
(* C4 *)

\* C4: a call of log at a level ranking below the logger's min_level returns
\* false and has no side effect: every file, the console and the logger's
\* name, min_level, write_to_console, write_to_file and log_file are as
\* before, whichever destinations are enabled.
C4_BelowMinLevelHasNoEffect ==
    [][(/\ calls' # calls
        /\ op' \in LogOps
        /\ logger # <<>>
        /\ Rank(last'.level) < Rank(logger[1].min_level))
          => /\ last'.returned
             /\ ~last'.result
             /\ fs' = fs
             /\ console' = console
             /\ logger' = logger]_vars

C4_Witness_RejectedWithBothDestinations ==
    /\ LogReturned
    /\ ~last.result
    /\ logger[1].write_to_file
    /\ logger[1].write_to_console
    /\ logger[1].log_file # None

----------------------------------------------------------------------------
(* C5 *)

\* C5: a call of log that passes the gate and returns appends exactly one
\* line to the logger's file when write_to_file is set and leaves every file
\* as it was otherwise, and prints exactly one line to the console when
\* write_to_console is set and nothing otherwise; so a logger with the
\* console off and the file on appends one line and prints nothing.
C5_OneLinePerEnabledDestination ==
    [][(LogReturns /\ last'.result) =>
          LET self == logger[1] IN
          /\ IF self.write_to_file
             THEN \E p \in Paths :
                     /\ self.log_file = <<[path |-> p]>>
                     /\ Len(fs'[p].content) = Len(fs[p].content) + 1
                     /\ IsPrefix(fs[p].content, fs'[p].content)
                     /\ IsOneLine(fs'[p].content[Len(fs'[p].content)])
                     /\ \A q \in Paths \ {p} : fs'[q] = fs[q]
             ELSE fs' = fs
          /\ IF self.write_to_console
             THEN /\ Len(console') = Len(console) + 1
                  /\ IsPrefix(console, console')
                  /\ IsOneLine(console'[Len(console')])
             ELSE console' = console]_vars

C5_Witness_FileOnlyLoggerWrote ==
    /\ LogReturned
    /\ last.result
    /\ logger[1].write_to_file
    /\ ~logger[1].write_to_console
    /\ console = <<>>
    /\ \E p \in Paths :
          /\ logger[1].log_file = <<[path |-> p]>>
          /\ fs[p].content # <<>>
          /\ fs[p].content[Len(fs[p].content)][8].text = last.message

----------------------------------------------------------------------------
(* C6 *)

\* C6: every file is append-only: in every step, new_to_file on an existing
\* path and log included, a file that exists keeps existing and its content
\* before the step is a prefix of its content after it; a passing call of
\* log on a logger with a file puts its line at the end of that file, so the
\* lines are in the order of the calls, also when a logger was dropped and
\* another opened on the same path in between.
C6_FileIsAppendOnly ==
    [][/\ \A p \in Paths :
             fs[p].exists =>
                /\ fs'[p].exists
                /\ IsPrefix(fs[p].content, fs'[p].content)
       /\ (LogReturns /\ last'.result /\ logger[1].write_to_file) =>
             \E p \in Paths :
                /\ logger[1].log_file = <<[path |-> p]>>
                /\ Len(fs'[p].content) = Len(fs[p].content) + 1
                /\ LET line == fs'[p].content[Len(fs'[p].content)] IN
                      /\ line[4].text = logger[1].name
                      /\ line[6].text = to_string(last'.level)
                      /\ line[8].text = last'.message]_vars

\* Two loggers of different names wrote, one after the other, after what the
\* file held before the first was opened.
C6_Witness_SecondLoggerAppended ==
    \E p \in Paths :
       /\ Len(fs[p].content) = 3
       /\ fs[p].content[1] = OldChunk
       /\ fs[p].content[2][4].text = "svc"
       /\ fs[p].content[3][4].text = "test"
       /\ LogReturned
       /\ logger[1].name = "test"

----------------------------------------------------------------------------
(* C7 *)

\* C7: a failure of the file is fatal and not masked: when the open fails
\* new_to_file panics and there is no Logger; when the write fails during a
\* passing call of log the call panics without returning, it called write
\* once and printed nothing; and after a panic no call runs.
C7_FileFailureIsFatal ==
    [][/\ pc = "running"
       /\ (calls' # calls /\ last'.io = "open_failed") =>
             /\ op' = "new_to_file"
             /\ pc' = "panicked"
             /\ ~last'.returned
             /\ logger' = <<>>
             /\ fs' = fs
       /\ (calls' # calls /\ last'.io = "write_failed") =>
             /\ op' \in LogOps
             /\ pc' = "panicked"
             /\ ~last'.returned
             /\ ~last'.result
             /\ last'.writes = 1
             /\ last'.prints = 0
             /\ console' = console]_vars

C7_Witness_WriteFailedAndPanicked ==
    /\ pc = "panicked"
    /\ op \in LogOps
    /\ last.io = "write_failed"
    /\ Rank(last.level) >= Rank(last.min_level)

----------------------------------------------------------------------------
(* C8 *)

\* C8: new(name, min_level) makes a logger with that name and min_level, the
\* console enabled, the file disabled and no log_file; new_default(name)
\* makes the logger new(name, Info) makes.
C8_ConsoleOnlyConstructors ==
    /\ op = "new" =>
          logger = <<[name             |-> last.name,
                      min_level        |-> last.level,
                      log_file         |-> <<>>,
                      write_to_console |-> TRUE,
                      write_to_file    |-> FALSE]>>
    /\ op = "new_default" =>
          logger = <<[name             |-> last.name,
                      min_level        |-> "Info",
                      log_file         |-> <<>>,
                      write_to_console |-> TRUE,
                      write_to_file    |-> FALSE]>>

C8_Witness_DefaultLoggerMade ==
    /\ op = "new_default"
    /\ logger # <<>>
    /\ logger[1].name = "svc"
    /\ logger[1].min_level = "Info"

----------------------------------------------------------------------------
(* C9 *)

\* C9: a call of trace, debug, info, warning, error or critical is a call of
\* log at the level of that name with the same message: the same result,
\* the same file and console output, the same panic, and the logger
\* unchanged.
C9_ShortcutIsLogAtItsLevel ==
    [][(calls' # calls /\ op' \in LogOps \ {"log"}) =>
          /\ logger # <<>>
          /\ log(ShortcutLevel(op'), last'.message)]_vars

C9_Witness_TraceWroteToFile ==
    /\ LogReturned
    /\ op = "trace"
    /\ last.result
    /\ logger[1].write_to_file
    /\ logger[1].write_to_console
    /\ console # <<>>

----------------------------------------------------------------------------
(* C10 *)

\* The lowercase name of each level.
LowercaseName(level) ==
    CASE level = "Trace"    -> "trace"
      [] level = "Debug"    -> "debug"
      [] level = "Info"     -> "info"
      [] level = "Warning"  -> "warning"
      [] level = "Error"    -> "error"
      [] level = "Critical" -> "critical"

\* The style each level gives to what the console shows.
LevelStyle(level) ==
    CASE level = "Trace"    -> "underline"
      [] level = "Debug"    -> "dimmed"
      [] level = "Info"     -> "clear"
      [] level = "Warning"  -> "yellow"
      [] level = "Error"    -> "red"
      [] level = "Critical" -> "red bold"

\* The timestamps of the clock readings made so far.
Stamps == {get_date_time(t) : t \in 0..clock}

\* C10: a line a passing call of log emits is `[<timestamp>] [<name>]
\* [<level>] <message>` with the fields in that order; <level> is the
\* lowercase name of the call's level, <name> the logger's name, <message>
\* the caller's message; the line in the file ends with a newline and has no
\* styling; on the console the level name and the message carry the style of
\* the level and the rest none.
C10_LineFormat ==
    (LogReturned /\ last.result) =>
        LET self == logger[1] IN
        /\ self.write_to_file =>
              \E p \in Paths, stamp \in Stamps :
                 /\ self.log_file = <<[path |-> p]>>
                 /\ fs[p].content # <<>>
                 /\ fs[p].content[Len(fs[p].content)] =
                       << [text |-> "[", style |-> "none"],
                          [text |-> stamp, style |-> "none"],
                          [text |-> "] [", style |-> "none"],
                          [text |-> self.name, style |-> "none"],
                          [text |-> "] [", style |-> "none"],
                          [text |-> LowercaseName(last.level), style |-> "none"],
                          [text |-> "] ", style |-> "none"],
                          [text |-> last.message, style |-> "none"],
                          [text |-> "\n", style |-> "none"] >>
        /\ self.write_to_console =>
              \E stamp \in Stamps :
                 /\ console # <<>>
                 /\ console[Len(console)] =
                       << [text |-> "[", style |-> "none"],
                          [text |-> stamp, style |-> "none"],
                          [text |-> "] [", style |-> "none"],
                          [text |-> self.name, style |-> "none"],
                          [text |-> "] [", style |-> "none"],
                          [text |-> LowercaseName(last.level),
                           style |-> LevelStyle(last.level)],
                          [text |-> "] ", style |-> "none"],
                          [text |-> last.message,
                           style |-> LevelStyle(last.level)],
                          [text |-> "\n", style |-> "none"] >>

\* The logger "svc" logged "disk full" at Warning to its file and to the
\* console.
C10_Witness_WarningDiskFull ==
    /\ LogReturned
    /\ last.result
    /\ last.level = "Warning"
    /\ last.message = "disk full"
    /\ logger[1].name = "svc"
    /\ logger[1].write_to_file
    /\ logger[1].write_to_console
    /\ console # <<>>
    /\ console[Len(console)][6] = [text |-> "warning", style |-> "yellow"]

----------------------------------------------------------------------------
(* C11 *)

----------------------------------------------------------------------------
(* C12 *)

\* C12: after any sequence of constructor and log calls, a logger with
\* write_to_file set has a log_file, on a file that exists; and the only
\* step that yields a logger with write_to_file set from none or from one
\* without it is a call of new_to_file whose open succeeded, which puts the
\* sink on its path in the logger in that same step.
C12_FileEnabledHasSink ==
    [][/\ (logger' # <<>> /\ logger'[1].write_to_file) =>
             \E p \in Paths :
                /\ logger'[1].log_file = <<[path |-> p]>>
                /\ fs'[p].exists
       /\ (/\ logger' # <<>>
           /\ logger'[1].write_to_file
           /\ (logger = <<>> \/ ~logger[1].write_to_file)) =>
             /\ calls' # calls
             /\ op' = "new_to_file"
             /\ last'.io = "ok"
             /\ logger'[1].log_file = <<[path |-> last'.path]>>]_vars

C12_Witness_FileLoggerAfterLog ==
    /\ LogReturned
    /\ last.result
    /\ logger[1].write_to_file
    /\ logger[1].log_file = <<[path |-> "test.log"]>>
    /\ fs["test.log"].exists
    /\ fs["test.log"].content # <<>>

----------------------------------------------------------------------------
(* C13 *)

\* C13: every logger the constructors make has write_to_console set or has
\* write_to_file set with a log_file, and log keeps it so; hence a call of
\* log that returns true has put its message in a file or on the console:
\* none returns true having written nothing.
C13_TrueMeansEmitted ==
    [][/\ logger' # <<>> =>
             \/ logger'[1].write_to_console
             \/ logger'[1].write_to_file /\ logger'[1].log_file # None
       /\ (LogReturns /\ last'.result) =>
             /\ fs' # fs \/ console' # console
             /\ last'.writes + last'.prints >= 1]_vars

C13_Witness_FileOnlyEmitted ==
    /\ LogReturned
    /\ last.result
    /\ ~logger[1].write_to_console
    /\ last.prints = 0
    /\ last.writes = 1
    /\ logger[1].log_file = <<[path |-> "log.txt"]>>
    /\ fs["log.txt"].content # <<>>

----------------------------------------------------------------------------
(* C14 *)

\* C14: a passing call of log on a logger with both destinations enabled
\* goes to the file first and to the console second: the clock reading in
\* its file line is the one before the reading in its console line, and
\* when the write to the file fails nothing of the call is on the console.
C14_FileBeforeConsole ==
    [][(/\ calls' # calls
        /\ op' \in LogOps
        /\ logger # <<>>
        /\ logger[1].write_to_file
        /\ logger[1].write_to_console
        /\ Rank(last'.level) >= Rank(logger[1].min_level)) =>
          /\ last'.io = "write_failed" =>
                /\ console' = console
                /\ last'.order = <<"file">>
          /\ last'.returned =>
                /\ last'.order = <<"file", "console">>
                /\ Len(console') = Len(console) + 1
                /\ \E p \in Paths, t \in 0..clock' :
                      /\ logger[1].log_file = <<[path |-> p]>>
                      /\ Len(fs'[p].content) = Len(fs[p].content) + 1
                      /\ fs'[p].content[Len(fs'[p].content)][2].text
                            = get_date_time(t)
                      /\ console'[Len(console')][2].text
                            = get_date_time(t + 1)]_vars

C14_Witness_BothDestinationsWritten ==
    /\ LogReturned
    /\ last.result
    /\ logger[1].write_to_file
    /\ logger[1].write_to_console
    /\ last.order = <<"file", "console">>
    /\ console # <<>>
    /\ console[Len(console)][2].text = get_date_time(1)

====
